---------------------------- MODULE Spec2Model ----------------------------
(***************************************************************************)
(* The schema-group privilege resource of terraform-provider-redshift:     *)
(* the Create / Read / Update / Delete / Exists hooks, the catalog queries *)
(* they run, the statements they build, and the transaction each of them   *)
(* opens on the shared connection.                                         *)
(*                                                                         *)
(* The warehouse is one schema (oid SchemaId) and the managed group        *)
(* (grosysid GroupId), plus one other group whose ACL entries may already  *)
(* sit in the schema's ACLs.  A hook is one action: it runs the whole      *)
(* handler against the catalog and records every call it made on the       *)
(* connection (Begin, QueryRow, Exec, Rollback, Commit) with its outcome.  *)
(*                                                                         *)
(* Spec runs the hooks of the privilege resource; SchemaSpec runs the Read *)
(* and Update hooks of the schema resource (resource_redshift_schema.go)   *)
(* on the same catalog, with st holding that resource's attributes.        *)
(***************************************************************************)
EXTENDS Integers, Sequences, FiniteSets, TLC

VARIABLES db,      \* the committed catalog of the warehouse
          st,      \* the state the host stores for the resource (or NoResource)
          last     \* the last hook invocation: inputs, calls made, result

vars == <<db, st, last>>

----------------------------------------------------------------------------
(* The PrivilegeSet: seven boolean attributes of the resource schema.  A   *)
(* PrivilegeSet is modelled as the set of the attributes that are true.     *)

TableFlags == {"select", "insert", "update", "delete", "references"}
SchemaFlags == {"usage", "create"}
Flags == TableFlags \cup SchemaFlags

(* The order in which the host's configurations are widened: the first     *)
(* NumFlags attributes of HostFlagOrder may be true in a configuration or   *)
(* in an initial ACL, the others are false there.  The hooks themselves     *)
(* handle all seven.                                                        *)
HostFlagOrder == <<"select", "usage", "create", "insert", "update", "delete", "references">>
NumFlags == 3
HostFlags == {HostFlagOrder[i] : i \in 1..NumFlags}
Configs == SUBSET HostFlags

SchemaId == 1000
GroupId == 200
OtherGroupId == 201
SystemOwner == 1
UserOwner == 100

SchemaNames == {"s", "t"}
GroupNames == {"g", "h"}
OtherGroupName == "g2"

(* Names as character sequences, for the catalog's ACL text. *)
Text == [s |-> <<"s">>, t |-> <<"t">>, g |-> <<"g">>, h |-> <<"h">>,
         g2 |-> <<"g", "2">>, o |-> <<"o">>]
GrantorName == "o"

(* The keyword of each attribute in GRANT/REVOKE, and its letter in an ACL. *)
Keyword == [select |-> "SELECT", insert |-> "INSERT", update |-> "UPDATE",
            delete |-> "DELETE", references |-> "REFERENCES",
            usage |-> "USAGE", create |-> "CREATE"]
AclChar == [select |-> "r", update |-> "w", insert |-> "a", delete |-> "d",
            references |-> "x", usage |-> "U", create |-> "C"]
AclOrder == <<"insert", "select", "update", "delete", "references", "usage", "create">>

----------------------------------------------------------------------------
(* Errors.  A hook returns Nil, one of these, or panics.                    *)

Nil == "nil"
Running == "<running>"
ErrNoPrivilege == "Must have at least 1 privilege"
ErrSystemSchemaPrefix == "Privilege creation is not allowed for system schemas, schema="
ErrNoRows == "sql: no rows in result set"
ErrTxDone == "sql: transaction has already been committed or rolled back"
ErrScanNull == "sql: Scan error on column index 0: converting NULL to bool is unsupported"
ErrBegin == "begin failed"
ErrQuery == "query failed"
ErrExec == "exec failed"
ErrRollback == "rollback failed"
ErrCommit == "commit failed"
Panic(e) == "panic: " \o e

NewError(text) == text

----------------------------------------------------------------------------
(* Text functions of the catalog queries, on sequences of characters.       *)

Min(S) == CHOOSE x \in S : \A y \in S : x <= y

(* Position of the first occurrence of d in s, 0 when there is none. *)
IndexOf(s, d) ==
    LET cand == {i \in 1..(Len(s) - Len(d) + 1) : SubSeq(s, i, i + Len(d) - 1) = d}
    IN IF Len(d) = 0 \/ cand = {} THEN 0 ELSE Min(cand)

charindex(c, s) == IndexOf(s, <<c>>)

RECURSIVE split_part(_, _, _)
split_part(s, d, n) ==
    LET i == IndexOf(s, d)
    IN IF n = 1 THEN (IF i = 0 THEN s ELSE SubSeq(s, 1, i - 1))
       ELSE IF i = 0 THEN <<>>
       ELSE split_part(SubSeq(s, i + Len(d), Len(s)), d, n - 1)

(* s LIKE '%' || d || '%' *)
LikeContains(s, d) == IndexOf(s, d) > 0

RECURSIVE JoinChars(_, _)
JoinChars(parts, sep) ==
    IF parts = <<>> THEN <<>>
    ELSE IF Len(parts) = 1 THEN parts[1]
    ELSE parts[1] \o sep \o JoinChars(Tail(parts), sep)

RECURSIVE Join(_, _)
Join(words, sep) ==
    IF words = <<>> THEN ""
    ELSE IF Len(words) = 1 THEN words[1]
    ELSE words[1] \o sep \o Join(Tail(words), sep)

(* The members of S in the order of seq. *)
RECURSIVE Filter(_, _)
Filter(seq, S) ==
    IF seq = <<>> THEN <<>>
    ELSE IF Head(seq) \in S THEN <<Head(seq)>> \o Filter(Tail(seq), S)
    ELSE Filter(Tail(seq), S)

----------------------------------------------------------------------------
(* The catalog.  An ACL is a sequence of aclitems, one per grantee, in the  *)
(* order the grantees were first granted something; an aclitem whose last   *)
(* privilege is revoked leaves the ACL.                                     *)

GroupNameOf(cat, gid) == IF gid = GroupId THEN cat.groname ELSE OtherGroupName

AclItemText(cat, item) ==
    <<"g", "r", "o", "u", "p", " ">> \o Text[GroupNameOf(cat, item.grantee)] \o <<"=">>
      \o [i \in 1..Len(Filter(AclOrder, item.privs)) |-> AclChar[Filter(AclOrder, item.privs)[i]]]
      \o <<"/">> \o Text[GrantorName]

(* array_to_string(acl, '|') *)
array_to_string(cat, acl) ==
    JoinChars([i \in 1..Len(acl) |-> AclItemText(cat, acl[i])], <<"|">>)

HasItem(acl, gid) == \E i \in 1..Len(acl) : acl[i].grantee = gid

ItemOf(acl, gid) == acl[CHOOSE i \in 1..Len(acl) : acl[i].grantee = gid]

PrivsOf(acl, gid) == IF HasItem(acl, gid) THEN ItemOf(acl, gid).privs ELSE {}

(* GRANT: the grantee's aclitem gains the privileges; a new grantee's
   aclitem is appended. *)
AclGrant(acl, gid, privs) ==
    IF privs = {} THEN acl
    ELSE IF HasItem(acl, gid)
    THEN [i \in 1..Len(acl) |->
            IF acl[i].grantee = gid
            THEN [acl[i] EXCEPT !.privs = @ \cup privs] ELSE acl[i]]
    ELSE Append(acl, [grantee |-> gid, privs |-> privs])

RECURSIVE DropEmpty(_)
DropEmpty(acl) ==
    IF acl = <<>> THEN <<>>
    ELSE IF Head(acl).privs = {} THEN DropEmpty(Tail(acl))
    ELSE <<Head(acl)>> \o DropEmpty(Tail(acl))

(* REVOKE: the grantee's aclitem loses the privileges; revoking what is not
   held is no error. *)
AclRevoke(acl, gid, privs) ==
    DropEmpty([i \in 1..Len(acl) |->
                 IF acl[i].grantee = gid
                 THEN [acl[i] EXCEPT !.privs = @ \ privs] ELSE acl[i]])

(* The catalog rows the provider reads and writes:
     pg_namespace   nspname, nspowner, nspacl      of oid SchemaId
     pg_group       groname                        of grosysid GroupId
     pg_default_acl defaclacl                      of defaclnamespace SchemaId
   and relacl, the privileges the managed group holds on the schema's
   tables (written by ON ALL TABLES statements, read by no query), and
   quota, the schema's row of svv_schema_quota_state (0: none). *)
Catalog(sname, owner, gname, defacl, nspacl, relacl) ==
    [nspname |-> sname, nspowner |-> owner, groname |-> gname,
     defaclacl |-> defacl, nspacl |-> nspacl, relacl |-> relacl, quota |-> 0]

----------------------------------------------------------------------------
(* Statements.  A statement carries the SQL text the code concatenates and
   what the warehouse does with it: verb, privileges, object, grantee.      *)

OnAllTables == "ALL TABLES"
OnDefault == "DEFAULT PRIVILEGES"
OnSchema == "SCHEMA"

Stmt(sql, verb, on, privs, schemaName, groupName) ==
    [sql |-> sql, verb |-> verb, on |-> on, privs |-> privs,
     schema |-> schemaName, group |-> groupName]

(* The warehouse executing one statement inside a transaction.  The names in
   the text are resolved against the catalog as it is now. *)
Resolves(cat, stmt) == stmt.schema = cat.nspname /\ stmt.group = cat.groname

Apply(cat, stmt) ==
    LET change(acl, privs) == IF stmt.verb = "GRANT" THEN AclGrant(acl, GroupId, privs)
                              ELSE AclRevoke(acl, GroupId, privs)
    IN CASE stmt.on = OnAllTables ->
              [cat EXCEPT !.relacl = IF stmt.verb = "GRANT" THEN @ \cup (stmt.privs \cap TableFlags)
                                     ELSE @ \ stmt.privs]
         [] stmt.on = OnDefault ->
              [cat EXCEPT !.defaclacl = change(@, stmt.privs \cap TableFlags)]
         [] stmt.on = OnSchema ->
              [cat EXCEPT !.nspacl = change(@, stmt.privs \cap SchemaFlags)]

----------------------------------------------------------------------------
(* The connection.  A session is one hook's use of it: the calls made so    *)
(* far with their outcomes, the catalog as the open transaction sees it,    *)
(* whether the transaction is still open, whether it was committed, the     *)
(* error of the last call, and the hook's result once it has returned.      *)
(*                                                                          *)
(* A fault F makes the call number F.at fail with F.err (0: no call fails)  *)
(* and, when F.rb, makes Rollback on an open transaction fail.              *)

NoStmt == Stmt("", "", "", {}, "", "")

Call(kind, sql, stmt, res) == [call |-> kind, sql |-> sql, stmt |-> stmt, res |-> res]

Fires(s, F) == F.at = Len(s.calls) + 1

Logged(s, c) == [s EXCEPT !.calls = Append(@, c), !.err = c.res]

Return(s, e) == [s EXCEPT !.ret = e]

(* db.Begin(): the hooks panic when it fails. *)
Begin(cat, F) ==
    LET s == [calls |-> <<>>, tx |-> cat, open |-> FALSE, committed |-> FALSE,
              err |-> Nil, ret |-> Running]
    IN IF Fires(s, F)
       THEN Return(Logged(s, Call("Begin", "", NoStmt, ErrBegin)), Panic(ErrBegin))
       ELSE [Logged(s, Call("Begin", "", NoStmt, Nil)) EXCEPT !.open = TRUE]

(* tx.Rollback(): ends the transaction; on a finished one it is ErrTxDone. *)
Rollback(s, F) ==
    [Logged(s, Call("Rollback", "", NoStmt,
                    IF ~s.open THEN ErrTxDone ELSE IF F.rb THEN ErrRollback ELSE Nil))
       EXCEPT !.open = FALSE]

(* tx.Commit(): only a successful commit changes the warehouse. *)
Commit(s, F) ==
    IF ~s.open THEN Logged(s, Call("Commit", "", NoStmt, ErrTxDone))
    ELSE IF Fires(s, F)
    THEN [Logged(s, Call("Commit", "", NoStmt, ErrCommit)) EXCEPT !.open = FALSE]
    ELSE [Logged(s, Call("Commit", "", NoStmt, Nil)) EXCEPT !.open = FALSE, !.committed = TRUE]

(* tx.Exec(sql) *)
Exec(s, stmt, F) ==
    IF ~s.open THEN Logged(s, Call("Exec", stmt.sql, stmt, ErrTxDone))
    ELSE IF Fires(s, F) \/ ~Resolves(s.tx, stmt)
    THEN Logged(s, Call("Exec", stmt.sql, stmt, ErrExec))
    ELSE [Logged(s, Call("Exec", stmt.sql, stmt, Nil)) EXCEPT !.tx = Apply(@, stmt)]

(* Variants of the rollback-log-return block with a slip in it: one commits
   where the code rolls back, one returns the rollback's error when the
   rollback fails. *)
CommitAndReturn(s, F, e) == Return(Commit(s, F), e)

RollbackAndReturn_Masked(s, F, e) ==
    LET r == Rollback(s, F)
    IN Return(r, IF r.err # Nil THEN r.err ELSE e)

(* The rollback-log-return blocks of the hooks: the rollback's own error is
   only logged, e is what the hook returns. *)
RollbackAndReturn(s, F, e) == Return(Rollback(s, F), e)

----------------------------------------------------------------------------
(* The ResourceData d of a hook: the attributes planned (config) and the   *)
(* ones stored before (state).                                              *)

(* d.Get reading the stored value instead of the planned one. *)
Get_Stored(d, attribute) == attribute \in d.state

Get(d, attribute) == attribute \in d.config
GetOk(d, attribute) == attribute \in d.config
HasChange_Planned(d, attribute) == attribute \in d.config
HasChange(d, attribute) == (attribute \in d.state) # (attribute \in d.config)

validateGrants(d) ==
    (IF GetOk(d, "select") THEN <<"SELECT">> ELSE <<>>)
    \o (IF GetOk(d, "insert") THEN <<"INSERT">> ELSE <<>>)
    \o (IF GetOk(d, "update") THEN <<"UPDATE">> ELSE <<>>)
    \o (IF GetOk(d, "delete") THEN <<"DELETE">> ELSE <<>>)
    \o (IF GetOk(d, "references") THEN <<"REFERENCES">> ELSE <<>>)

validateSchemaGrants_DropsUsage(d) ==
    IF GetOk(d, "create") THEN <<"CREATE">> ELSE <<>>

validateSchemaGrants(d) ==
    (IF GetOk(d, "create") THEN <<"CREATE">> ELSE <<>>)
    \o (IF GetOk(d, "usage") THEN <<"USAGE">> ELSE <<>>)

isSystemSchema(schemaOwner) == schemaOwner = SystemOwner

(* The attributes a comma-separated keyword list names. *)
Named(words) == {f \in Flags : \E i \in 1..Len(words) : words[i] = Keyword[f]}

----------------------------------------------------------------------------
(* Catalog lookups.                                                         *)

(* A lookup that keeps the name the schema had when it was created. *)
GetSchemaInfoForSchemaId_Cached(s, schemaId, F) ==
    LET sql == "SELECT nspname, nspowner FROM pg_namespace WHERE oid = $1"
        e == IF ~s.open THEN ErrTxDone ELSE IF Fires(s, F) THEN F.err
             ELSE IF schemaId # SchemaId THEN ErrNoRows ELSE Nil
    IN [s |-> Logged(s, Call("QueryRow", sql, NoStmt, e)),
        name |-> IF e = Nil THEN "s" ELSE "",
        owner |-> IF e = Nil THEN s.tx.nspowner ELSE -1,
        err |-> e]

(* SELECT nspname, nspowner FROM pg_namespace WHERE oid = $1 *)
GetSchemaInfoForSchemaId(s, schemaId, F) ==
    LET sql == "SELECT nspname, nspowner FROM pg_namespace WHERE oid = $1"
        e == IF ~s.open THEN ErrTxDone ELSE IF Fires(s, F) THEN F.err
             ELSE IF schemaId # SchemaId THEN ErrNoRows ELSE Nil
    IN [s |-> Logged(s, Call("QueryRow", sql, NoStmt, e)),
        name |-> IF e = Nil THEN s.tx.nspname ELSE "",
        owner |-> IF e = Nil THEN s.tx.nspowner ELSE -1,
        err |-> e]

(* The group's name by its grosysid, from pg_group. *)
GetGroupNameForGroupId(s, groupId, F) ==
    LET sql == "SELECT groname FROM pg_group WHERE grosysid = $1"
        e == IF ~s.open THEN ErrTxDone ELSE IF Fires(s, F) THEN F.err
             ELSE IF groupId # GroupId THEN ErrNoRows ELSE Nil
    IN [s |-> Logged(s, Call("QueryRow", sql, NoStmt, e)),
        name |-> IF e = Nil THEN s.tx.groname ELSE "",
        err |-> e]

(* split_part(split_part(array_to_string(acl, '|'), 'group ' || groname, 2), '/', 1) *)
GroupPart(cat, acl) ==
    split_part(split_part(array_to_string(cat, acl),
                          <<"g", "r", "o", "u", "p", " ">> \o Text[cat.groname], 2),
               <<"/">>, 1)

(* array_to_string(acl, '|') LIKE '%' || 'group ' || groname || '=%' *)
GroupLike(cat, acl) ==
    LikeContains(array_to_string(cat, acl),
                 <<"g", "r", "o", "u", "p", " ">> \o Text[cat.groname] \o <<"=">>)

(* hasPrivilegeQuery.  An aggregate without GROUP BY: it yields one row
   whatever matches, and bool_or over no row is NULL, which Scan cannot
   store into a bool. *)
hasPrivilegeQuery(cat) ==
    IF cat.defaclacl # <<>> /\ GroupLike(cat, cat.defaclacl)
    THEN [err |-> Nil,
          privs |-> LET part == GroupPart(cat, cat.defaclacl)
                    IN {f \in TableFlags : charindex(AclChar[f], part) > 0}]
    ELSE [err |-> ErrScanNull, privs |-> {}]

(* hasSchemaPrivilegeQuery: one row when the schema's ACL names the group,
   sql.ErrNoRows otherwise. *)
hasSchemaPrivilegeQuery(cat) ==
    IF GroupLike(cat, cat.nspacl)
    THEN [err |-> Nil,
          privs |-> LET part == GroupPart(cat, cat.nspacl)
                    IN {f \in SchemaFlags : charindex(AclChar[f], part) > 0}]
    ELSE [err |-> ErrNoRows, privs |-> {}]

(* tx.QueryRow(query, schema_id, group_id).Scan(...): q is what the query
   yields on the catalog the transaction sees. *)
QueryRow(s, query, q, F) ==
    LET e == IF ~s.open THEN ErrTxDone ELSE IF Fires(s, F) THEN ErrQuery ELSE q.err
    IN [s |-> Logged(s, Call("QueryRow", query, NoStmt, e)),
        privs |-> IF e = Nil THEN q.privs ELSE {},
        err |-> e]

(* After the second Scan: its error other than ErrNoRows rolls back and is
   returned; otherwise the seven d.Set. *)
readSchemaPrivileges(r1, r2, d, F) ==
    IF r2.err # Nil /\ r2.err # ErrNoRows
    THEN [s |-> Rollback(r2.s, F), flags |-> d.config, err |-> r2.err]
    ELSE [s |-> r2.s, flags |-> r1.privs \cup r2.privs, err |-> Nil]

(* After the first Scan: its error other than ErrNoRows rolls back and is
   returned; otherwise the second query runs. *)
readPrivileges(r1, d, F) ==
    IF r1.err # Nil /\ r1.err # ErrNoRows
    THEN [s |-> Rollback(r1.s, F), flags |-> d.config, err |-> r1.err]
    ELSE readSchemaPrivileges(r1, QueryRow(r1.s, "hasSchemaPrivilegeQuery",
                                           hasSchemaPrivilegeQuery(r1.s.tx), F), d, F)

(* readRedshiftSchemaGroupPrivilege(d, tx): flags is what d holds after it
   (the seven d.Set, or d untouched when it returns an error). *)
readRedshiftSchemaGroupPrivilege(s, d, F) ==
    readPrivileges(QueryRow(s, "hasPrivilegeQuery", hasPrivilegeQuery(s.tx), F), d, F)

----------------------------------------------------------------------------
(* The hooks.  Each yields [s, flags, id]: the finished session (its calls, *)
(* its result s.ret, whether it committed), the attributes d holds when the *)
(* hook returns, and the id d carries.  A hook is written as the chain of   *)
(* its blocks: each block takes what the call before it returned and either *)
(* returns from the hook or makes the next call.                            *)

PrivilegeId == "1000_200"

Result(s, flags, id) == [s |-> s, flags |-> flags, id |-> id]

(* Statements executed one after another until one fails: the session after
   the failing one, or after the last. *)
RECURSIVE ExecAll(_, _, _)
ExecRest(x, stmts, F) == IF x.err # Nil THEN x ELSE ExecAll(x, stmts, F)

ExecAll(s, stmts, F) ==
    IF stmts = <<>> THEN [s EXCEPT !.err = Nil]
    ELSE ExecRest(Exec(s, Head(stmts), F), Tail(stmts), F)

(* commitErr := tx.Commit(); return commitErr or nil *)
Committed(c, flags, id) == Result(Return(c, c.err), flags, id)

(* The read-back block of Create and the body of Read. *)
readCommitted(rd, F) ==
    IF rd.err # Nil
    THEN Result(RollbackAndReturn(rd.s, F, rd.err), rd.flags, PrivilegeId)
    ELSE Committed(Commit(rd.s, F), rd.flags, PrivilegeId)

(* The statements of Create: the two table-level ones when a table-level
   flag is true, then the schema-level one when a schema-level flag is. *)
createStatements(grants, schemaGrants, schemaName, groupName) ==
    (IF Len(grants) > 0
     THEN <<Stmt("GRANT " \o Join(grants, ",") \o " ON ALL TABLES IN SCHEMA " \o schemaName
                   \o " TO GROUP " \o groupName,
                 "GRANT", OnAllTables, Named(grants), schemaName, groupName),
            Stmt("ALTER DEFAULT PRIVILEGES IN SCHEMA " \o schemaName \o " GRANT "
                   \o Join(grants, ",") \o " ON TABLES TO GROUP " \o groupName,
                 "GRANT", OnDefault, Named(grants), schemaName, groupName)>>
     ELSE <<>>)
    \o (IF Len(schemaGrants) > 0
        THEN <<Stmt("GRANT " \o Join(schemaGrants, ",") \o " ON SCHEMA " \o schemaName
                      \o " TO GROUP " \o groupName,
                    "GRANT", OnSchema, Named(schemaGrants), schemaName, groupName)>>
        ELSE <<>>)

(* d.SetId, the read-back, Commit *)
createExecuted(x, d, F) ==
    IF x.err # Nil THEN Result(RollbackAndReturn(x, F, x.err), d.config, "")
    ELSE readCommitted(readRedshiftSchemaGroupPrivilege(x, d, F), F)

createForGroup(gi, d, grants, schemaGrants, schemaName, F) ==
    IF gi.err # Nil THEN Result(RollbackAndReturn(gi.s, F, gi.err), d.config, "")
    ELSE createExecuted(ExecAll(gi.s, createStatements(grants, schemaGrants, schemaName, gi.name), F),
                        d, F)

createInSchema(si, d, grants, schemaGrants, F) ==
    IF si.err # Nil THEN Result(RollbackAndReturn(si.s, F, si.err), d.config, "")
    ELSE IF isSystemSchema(si.owner)
    THEN Result(RollbackAndReturn(si.s, F, NewError(ErrSystemSchemaPrefix \o si.name)),
                d.config, "")
    ELSE createForGroup(GetGroupNameForGroupId(si.s, GroupId, F), d, grants, schemaGrants,
                        si.name, F)

createValidated(s0, d, grants, schemaGrants, F) ==
    IF s0.ret # Running THEN Result(s0, d.config, "")
    ELSE IF Len(grants) = 0 /\ Len(schemaGrants) = 0
    THEN Result(RollbackAndReturn(s0, F, NewError(ErrNoPrivilege)), d.config, "")
    ELSE createInSchema(GetSchemaInfoForSchemaId(s0, SchemaId, F), d, grants, schemaGrants, F)

resourceRedshiftSchemaGroupPrivilegeCreate(cat, d, F) ==
    createValidated(Begin(cat, F), d, validateGrants(d), validateSchemaGrants(d), F)

readBegun(s0, d, F) ==
    IF s0.ret # Running THEN Result(s0, d.config, PrivilegeId)
    ELSE readCommitted(readRedshiftSchemaGroupPrivilege(s0, d, F), F)

resourceRedshiftSchemaGroupPrivilegeRead(cat, d, F) == readBegun(Begin(cat, F), d, F)

(* updatePrivilege without the ALTER DEFAULT PRIVILEGES mirror of a REVOKE. *)
updatePrivilege_NoRevokeMirror(s, d, attribute, privilege, schemaName, groupName, F) ==
    IF ~HasChange(d, attribute) THEN [s EXCEPT !.err = Nil]
    ELSE IF Get(d, attribute)
    THEN ExecAll(s, <<Stmt("GRANT " \o privilege \o " ON ALL TABLES IN SCHEMA " \o schemaName
                             \o " TO  GROUP " \o groupName,
                           "GRANT", OnAllTables, Named(<<privilege>>), schemaName, groupName),
                      Stmt("ALTER DEFAULT PRIVILEGES IN SCHEMA " \o schemaName \o " GRANT "
                             \o privilege \o " ON TABLES TO GROUP " \o groupName,
                           "GRANT", OnDefault, Named(<<privilege>>), schemaName, groupName)>>, F)
    ELSE ExecAll(s, <<Stmt("REVOKE " \o privilege \o " ON ALL TABLES IN SCHEMA " \o schemaName
                             \o " FROM GROUP " \o groupName,
                           "REVOKE", OnAllTables, Named(<<privilege>>), schemaName, groupName)>>, F)

updatePrivilege(s, d, attribute, privilege, schemaName, groupName, F) ==
    IF ~HasChange(d, attribute) THEN [s EXCEPT !.err = Nil]
    ELSE IF Get(d, attribute)
    THEN ExecAll(s, <<Stmt("GRANT " \o privilege \o " ON ALL TABLES IN SCHEMA " \o schemaName
                             \o " TO  GROUP " \o groupName,
                           "GRANT", OnAllTables, Named(<<privilege>>), schemaName, groupName),
                      Stmt("ALTER DEFAULT PRIVILEGES IN SCHEMA " \o schemaName \o " GRANT "
                             \o privilege \o " ON TABLES TO GROUP " \o groupName,
                           "GRANT", OnDefault, Named(<<privilege>>), schemaName, groupName)>>, F)
    ELSE ExecAll(s, <<Stmt("REVOKE " \o privilege \o " ON ALL TABLES IN SCHEMA " \o schemaName
                             \o " FROM GROUP " \o groupName,
                           "REVOKE", OnAllTables, Named(<<privilege>>), schemaName, groupName),
                      Stmt("ALTER DEFAULT PRIVILEGES IN SCHEMA " \o schemaName \o " REVOKE "
                             \o privilege \o " ON TABLES FROM GROUP " \o groupName,
                           "REVOKE", OnDefault, Named(<<privilege>>), schemaName, groupName)>>, F)

updateSchemaPrivilege(s, d, attribute, privilege, schemaName, groupName, F) ==
    IF ~HasChange(d, attribute) THEN [s EXCEPT !.err = Nil]
    ELSE IF Get(d, attribute)
    THEN Exec(s, Stmt("GRANT " \o privilege \o " ON SCHEMA " \o schemaName
                        \o " TO  GROUP " \o groupName,
                      "GRANT", OnSchema, Named(<<privilege>>), schemaName, groupName), F)
    ELSE Exec(s, Stmt("REVOKE " \o privilege \o " ON SCHEMA " \o schemaName
                        \o " FROM GROUP " \o groupName,
                      "REVOKE", OnSchema, Named(<<privilege>>), schemaName, groupName), F)

(* The seven calls of Update, in the order the code makes them; the first
   that returns an error is followed by Rollback and ends the hook. *)
UpdateOrder_SchemaFirst ==
    <<"usage", "create", "select", "insert", "update", "delete", "references">>

UpdateOrder == <<"select", "insert", "update", "delete", "references", "usage", "create">>

RECURSIVE UpdateEach(_, _, _, _, _, _)
UpdateRest(r, d, attrs, schemaName, groupName, F) ==
    IF r.err # Nil THEN RollbackAndReturn(r, F, r.err)
    ELSE UpdateEach(r, d, attrs, schemaName, groupName, F)

UpdateEach(s, d, attrs, schemaName, groupName, F) ==
    IF attrs = <<>> THEN s
    ELSE UpdateRest(IF Head(attrs) \in TableFlags
                    THEN updatePrivilege(s, d, Head(attrs), Keyword[Head(attrs)],
                                         schemaName, groupName, F)
                    ELSE updateSchemaPrivilege(s, d, Head(attrs), Keyword[Head(attrs)],
                                               schemaName, groupName, F),
                    d, Tail(attrs), schemaName, groupName, F)

updateExecuted(u, d, F) ==
    IF u.ret # Running THEN Result(u, d.config, PrivilegeId)
    ELSE Committed(Commit(u, F), d.config, PrivilegeId)

updateForGroup(gi, d, schemaName, F) ==
    IF gi.err # Nil THEN Result(RollbackAndReturn(gi.s, F, gi.err), d.config, PrivilegeId)
    ELSE updateExecuted(UpdateEach(gi.s, d, UpdateOrder, schemaName, gi.name, F), d, F)

(* the owner that GetSchemaInfoForSchemaId returns is dropped here *)
updateInSchema(si, d, F) ==
    IF si.err # Nil THEN Result(RollbackAndReturn(si.s, F, si.err), d.config, PrivilegeId)
    ELSE updateForGroup(GetGroupNameForGroupId(si.s, GroupId, F), d, si.name, F)

updateValidated(s0, d, grants, schemaGrants, F) ==
    IF s0.ret # Running THEN Result(s0, d.config, PrivilegeId)
    ELSE IF Len(grants) = 0 /\ Len(schemaGrants) = 0
    THEN Result(RollbackAndReturn(s0, F, NewError(ErrNoPrivilege)), d.config, PrivilegeId)
    ELSE updateInSchema(GetSchemaInfoForSchemaId(s0, SchemaId, F), d, F)

resourceRedshiftSchemaGroupPrivilegeUpdate(cat, d, F) ==
    updateValidated(Begin(cat, F), d, validateGrants(d), validateSchemaGrants(d), F)

deleteStatements(schemaName, groupName) ==
    <<Stmt("REVOKE ALL ON  ALL TABLES IN SCHEMA " \o schemaName \o " FROM GROUP " \o groupName,
           "REVOKE", OnAllTables, TableFlags, schemaName, groupName),
      Stmt("ALTER DEFAULT PRIVILEGES IN SCHEMA " \o schemaName
             \o " REVOKE ALL ON TABLES FROM GROUP " \o groupName,
           "REVOKE", OnDefault, TableFlags, schemaName, groupName),
      Stmt("REVOKE ALL ON SCHEMA " \o schemaName \o " FROM GROUP " \o groupName,
           "REVOKE", OnSchema, SchemaFlags, schemaName, groupName)>>

deleteExecuted(x, d, F) ==
    IF x.err # Nil THEN Result(RollbackAndReturn(x, F, x.err), d.config, PrivilegeId)
    ELSE Committed(Commit(x, F), d.config, PrivilegeId)

deleteForGroup(gi, d, schemaName, F) ==
    IF gi.err # Nil THEN Result(RollbackAndReturn(gi.s, F, gi.err), d.config, PrivilegeId)
    ELSE deleteExecuted(ExecAll(gi.s, deleteStatements(schemaName, gi.name), F), d, F)

deleteInSchema(si, d, F) ==
    IF si.err # Nil THEN Result(RollbackAndReturn(si.s, F, si.err), d.config, PrivilegeId)
    ELSE deleteForGroup(GetGroupNameForGroupId(si.s, GroupId, F), d, si.name, F)

deleteBegun(s0, d, F) ==
    IF s0.ret # Running THEN Result(s0, d.config, PrivilegeId)
    ELSE deleteInSchema(GetSchemaInfoForSchemaId(s0, SchemaId, F), d, F)

resourceRedshiftSchemaGroupPrivilegeDelete(cat, d, F) == deleteBegun(Begin(cat, F), d, F)

(* The existence query, on the connection itself (no transaction): a row
   when either ACL names the group. *)
resourceRedshiftSchemaGroupPrivilegeExists(cat, F) ==
    LET found == (cat.defaclacl # <<>> /\ GroupLike(cat, cat.defaclacl))
                   \/ GroupLike(cat, cat.nspacl)
        e == IF F.at = 1 THEN ErrQuery ELSE IF found THEN Nil ELSE ErrNoRows
    IN [calls |-> <<Call("QueryRow", "existsQuery", NoStmt, e)>>,
        exists |-> e = Nil,
        ret |-> IF e = Nil \/ e = ErrNoRows THEN Nil ELSE e]

----------------------------------------------------------------------------
(* The host and the warehouse around the hooks.                             *)

NoResource == [id |-> "", flags |-> {}]

NoFault == [at |-> 0, err |-> ErrQuery, rb |-> FALSE]

(* The faults a hook can meet: any one of the calls its fault-free run makes
   fails; a lookup (the second and third call of Create, Update and Delete)
   fails with a query error or finds no row; Rollback fails or not. *)
Faults(n, lookups) ==
    {[at |-> i, err |-> ErrQuery, rb |-> b] : i \in 0..n, b \in BOOLEAN}
      \cup (IF lookups
            THEN {[at |-> i, err |-> ErrNoRows, rb |-> b] : i \in {2, 3}, b \in BOOLEAN}
            ELSE {})

(* What a hook invocation leaves behind for inspection. *)
Invocation(op, d, r, pre) ==
    [op |-> op, config |-> d.config, prior |-> d.state, calls |-> r.s.calls,
     ret |-> r.s.ret, committed |-> r.s.committed, flags |-> r.flags, exists |-> TRUE,
     pre |-> pre]

(* Only a committed transaction changes the warehouse. *)
After(cat, r) == IF r.s.committed THEN r.s.tx ELSE cat

NoInvocation ==
    [op |-> "none", config |-> {}, prior |-> {}, calls |-> <<>>, ret |-> Nil,
     committed |-> FALSE, flags |-> {}, exists |-> TRUE, pre |-> Catalog("s", UserOwner, "g", <<>>, <<>>, {})]

Idle == last.op = "none"

Create ==
    /\ Idle /\ st = NoResource
    /\ \E cfg \in Configs :
         LET d == [config |-> cfg, state |-> {}]
         IN \E r0 \in {resourceRedshiftSchemaGroupPrivilegeCreate(db, d, NoFault)} :
            \E F \in Faults(Len(r0.s.calls), TRUE) :
              \E r \in {resourceRedshiftSchemaGroupPrivilegeCreate(db, d, F)} :
                 /\ db' = After(db, r)
                 /\ last' = Invocation("Create", d, r, db)
                 /\ UNCHANGED st

Read ==
    /\ Idle /\ st # NoResource
    /\ LET d == [config |-> st.flags, state |-> st.flags]
       IN \E r0 \in {resourceRedshiftSchemaGroupPrivilegeRead(db, d, NoFault)} :
          \E F \in Faults(Len(r0.s.calls), FALSE) :
            \E r \in {resourceRedshiftSchemaGroupPrivilegeRead(db, d, F)} :
               /\ db' = After(db, r)
               /\ last' = Invocation("Read", d, r, db)
               /\ UNCHANGED st

Update ==
    /\ Idle /\ st # NoResource
    /\ \E cfg \in Configs :
         LET d == [config |-> cfg, state |-> st.flags]
         IN \E r0 \in {resourceRedshiftSchemaGroupPrivilegeUpdate(db, d, NoFault)} :
            \E F \in Faults(Len(r0.s.calls), TRUE) :
              \E r \in {resourceRedshiftSchemaGroupPrivilegeUpdate(db, d, F)} :
                 /\ db' = After(db, r)
                 /\ last' = Invocation("Update", d, r, db)
                 /\ UNCHANGED st

Delete ==
    /\ Idle /\ st # NoResource
    /\ LET d == [config |-> st.flags, state |-> st.flags]
       IN \E r0 \in {resourceRedshiftSchemaGroupPrivilegeDelete(db, d, NoFault)} :
          \E F \in Faults(Len(r0.s.calls), TRUE) :
            \E r \in {resourceRedshiftSchemaGroupPrivilegeDelete(db, d, F)} :
               /\ db' = After(db, r)
               /\ last' = Invocation("Delete", d, r, db)
               /\ UNCHANGED st

Exists ==
    /\ Idle /\ st # NoResource
    /\ \E F \in Faults(1, FALSE) :
         \E r \in {resourceRedshiftSchemaGroupPrivilegeExists(db, F)} :
            /\ last' = [op |-> "Exists", config |-> st.flags, prior |-> st.flags,
                        calls |-> r.calls, ret |-> r.ret, committed |-> FALSE,
                        flags |-> IF r.exists THEN st.flags ELSE {}, exists |-> r.exists,
                        pre |-> db]
            /\ UNCHANGED <<db, st>>

(* The host stores what the hook left in d: the read-back attributes after a
   Create or Read, the planned ones after an Update; it forgets the resource
   after a Delete and when Exists said it is gone.  A hook that failed
   leaves the stored state as it was. *)
Persist ==
    /\ ~Idle
    /\ st' = IF last.ret # Nil THEN st
             ELSE IF last.op = "Delete" THEN NoResource
             ELSE IF last.op = "Exists" THEN (IF last.exists THEN st ELSE NoResource)
             ELSE [id |-> PrivilegeId, flags |-> last.flags]
    /\ last' = NoInvocation
    /\ UNCHANGED db

(* ALTER SCHEMA ... RENAME TO, ALTER SCHEMA ... OWNER TO and a group rename
   reach the warehouse between two hooks of this resource. *)
RenameSchema ==
    /\ Idle
    /\ \E n \in SchemaNames \ {db.nspname} : db' = [db EXCEPT !.nspname = n]
    /\ UNCHANGED <<st, last>>

RenameGroup ==
    /\ Idle
    /\ \E n \in GroupNames \ {db.groname} : db' = [db EXCEPT !.groname = n]
    /\ UNCHANGED <<st, last>>

AlterSchemaOwner ==
    /\ Idle
    /\ \E o \in {SystemOwner, UserOwner} \ {db.nspowner} : db' = [db EXCEPT !.nspowner = o]
    /\ UNCHANGED <<st, last>>

(* The ACLs the schema may carry before the resource is created: the managed
   group holds any of the host's privilege sets, the other group holds
   nothing or INSERT by default and CREATE on the schema, granted before or
   after the managed group's. *)
OtherDefault == [grantee |-> OtherGroupId, privs |-> {"insert"}]
OtherSchema == [grantee |-> OtherGroupId, privs |-> {"create"}]

Item(privs) == IF privs = {} THEN <<>> ELSE <<[grantee |-> GroupId, privs |-> privs]>>

InitCatalogs ==
    {Catalog("s", UserOwner, "g", Item(P \cap TableFlags), Item(P \cap SchemaFlags),
             P \cap TableFlags) : P \in Configs}
    \cup {Catalog("s", UserOwner, "g", <<OtherDefault>> \o Item(P \cap TableFlags),
                  <<OtherSchema>> \o Item(P \cap SchemaFlags), P \cap TableFlags) : P \in Configs}
    \cup {Catalog("s", UserOwner, "g", Item(P \cap TableFlags) \o <<OtherDefault>>,
                  Item(P \cap SchemaFlags) \o <<OtherSchema>>, P \cap TableFlags) : P \in Configs}

Init ==
    /\ db \in InitCatalogs
    /\ st = NoResource
    /\ last = NoInvocation

Next ==
    \/ Create
    \/ Read
    \/ Update
    \/ Delete
    \/ Exists
    \/ Persist
    \/ RenameSchema
    \/ RenameGroup
    \/ AlterSchemaOwner

Spec == Init /\ [][Next]_vars

----------------------------------------------------------------------------
(* The schema resource (resource_redshift_schema.go).  Its stored state is  *)
(* the three attributes schema_name, owner and quota; st.flags holds them   *)
(* and db is the schema's catalog rows.  SchemaSpec runs the hooks of this  *)
(* resource alone.                                                          *)

SchemaResourceId == "1000"

OtherOwner == 101

QuotaMB == 1024

Owners == {UserOwner, OtherOwner}

Quotas == {0, QuotaMB}

UserName == [o \in Owners |-> IF o = UserOwner THEN "o" ELSE "p"]

SchemaConfigs == [schema_name : SchemaNames, owner : Owners, quota : Quotas]

(* SELECT trim(nspname), nspowner, coalesce(quota, 0) ... WHERE pg_namespace.oid = $1 *)
SchemaAttrs(cat) == [schema_name |-> cat.nspname, owner |-> cat.nspowner, quota |-> cat.quota]

SchemaCatalog(attrs) ==
    [Catalog(attrs.schema_name, attrs.owner, "g", <<>>, <<>>, {}) EXCEPT !.quota = attrs.quota]

(* The usernames of the given usesysids, looked up on the client. *)
GetUsersnamesForUsesysid(ids) == [i \in 1..Len(ids) |-> UserName[ids[i]]]

(* "ALTER SCHEMA " + name + " RENAME TO | OWNER TO | QUOTA " + ... *)
AlterStmt(sql, what, schemaName, value) ==
    [sql |-> sql, verb |-> "ALTER", on |-> what, privs |-> {}, schema |-> schemaName,
     group |-> "", value |-> value]

ApplyAlter(cat, stmt) ==
    CASE stmt.on = "RENAME TO" -> [cat EXCEPT !.nspname = stmt.value]
      [] stmt.on = "OWNER TO" -> [cat EXCEPT !.nspowner = stmt.value]
      [] stmt.on = "QUOTA" -> [cat EXCEPT !.quota = stmt.value]

(* tx.Exec of an ALTER SCHEMA: the schema is found by the name in the text. *)
ExecAlter(s, stmt, F) ==
    IF ~s.open THEN Logged(s, Call("Exec", stmt.sql, stmt, ErrTxDone))
    ELSE IF Fires(s, F) \/ stmt.schema # s.tx.nspname
    THEN Logged(s, Call("Exec", stmt.sql, stmt, ErrExec))
    ELSE [Logged(s, Call("Exec", stmt.sql, stmt, Nil)) EXCEPT !.tx = ApplyAlter(@, stmt)]

(* The client outside any transaction: its queries see what is committed. *)
Client(cat) ==
    [calls |-> <<>>, tx |-> cat, open |-> FALSE, committed |-> FALSE, err |-> Nil,
     ret |-> Running]

(* readRedshiftSchema(d, db): db.QueryRow on the client, not on a
   transaction, so it reads cat, the committed catalog; then the three
   d.Set, or d untouched when the query fails. *)
readRedshiftSchema(s, d, cat, F) ==
    LET e == IF Fires(s, F) THEN ErrQuery ELSE Nil
    IN [s |-> Logged(s, Call("QueryRow", "readRedshiftSchema", NoStmt, e)),
        flags |-> IF e = Nil THEN SchemaAttrs(cat) ELSE d.config,
        err |-> e]

(* resourceRedshiftSchemaRead *)
resourceRedshiftSchemaRead(rd) == Result(Return(rd.s, rd.err), rd.flags, SchemaResourceId)

(* The tail of resourceRedshiftSchemaUpdate: a failed read-back rolls back,
   otherwise Commit. *)
schemaReadBack(rd, F) ==
    IF rd.err # Nil THEN Result(RollbackAndReturn(rd.s, F, rd.err), rd.flags, SchemaResourceId)
    ELSE Committed(Commit(rd.s, F), rd.flags, SchemaResourceId)

(* "if _, err := tx.Exec(...); err != nil { return err }" of the three
   ALTER SCHEMA blocks: the hook returns, nothing else is called. *)
alterFailed(x, d) == Result(Return(x, x.err), d.config, SchemaResourceId)

QuotaText(v) == IF v # 0 THEN ToString(v) \o " MB" ELSE "UNLIMITED"

quotaAltered(x, d, cat, F) ==
    IF x.err # Nil THEN alterFailed(x, d)
    ELSE schemaReadBack(readRedshiftSchema(x, d, cat, F), F)

alterQuota(s, d, cat, F) ==
    IF d.state.quota # d.config.quota
    THEN quotaAltered(ExecAlter(s, AlterStmt("ALTER SCHEMA " \o d.config.schema_name
                                               \o " QUOTA " \o QuotaText(d.config.quota),
                                             "QUOTA", d.config.schema_name, d.config.quota), F),
                      d, cat, F)
    ELSE schemaReadBack(readRedshiftSchema(s, d, cat, F), F)

ownerAltered(x, d, cat, F) ==
    IF x.err # Nil THEN alterFailed(x, d) ELSE alterQuota(x, d, cat, F)

alterOwner(s, d, cat, F) ==
    IF d.state.owner # d.config.owner
    THEN ownerAltered(ExecAlter(s, AlterStmt("ALTER SCHEMA " \o d.config.schema_name
                                               \o " OWNER TO "
                                               \o GetUsersnamesForUsesysid(<<d.config.owner>>)[1],
                                             "OWNER TO", d.config.schema_name, d.config.owner), F),
                      d, cat, F)
    ELSE alterQuota(s, d, cat, F)

nameAltered(x, d, cat, F) ==
    IF x.err # Nil THEN alterFailed(x, d) ELSE alterOwner(x, d, cat, F)

alterName(s, d, cat, F) ==
    IF d.state.schema_name # d.config.schema_name
    THEN nameAltered(ExecAlter(s, AlterStmt("ALTER SCHEMA " \o d.state.schema_name
                                              \o " RENAME TO " \o d.config.schema_name,
                                            "RENAME TO", d.state.schema_name,
                                            d.config.schema_name), F),
                     d, cat, F)
    ELSE alterOwner(s, d, cat, F)

schemaBegun(s, d, cat, F) ==
    IF s.ret # Running THEN Result(s, d.config, SchemaResourceId)
    ELSE alterName(s, d, cat, F)

resourceRedshiftSchemaUpdate(cat, d, F) == schemaBegun(Begin(cat, F), d, cat, F)

SchemaUpdate ==
    /\ Idle
    /\ \E cfg \in SchemaConfigs \ {st.flags} :
         LET d == [config |-> cfg, state |-> st.flags]
         IN \E r0 \in {resourceRedshiftSchemaUpdate(db, d, NoFault)} :
            \E F \in Faults(Len(r0.s.calls), FALSE) :
              \E r \in {resourceRedshiftSchemaUpdate(db, d, F)} :
                 /\ db' = After(db, r)
                 /\ last' = Invocation("SchemaUpdate", d, r, db)
                 /\ UNCHANGED st

SchemaRead ==
    /\ Idle
    /\ LET d == [config |-> st.flags, state |-> st.flags]
       IN \E F \in Faults(1, FALSE) :
            \E r \in {resourceRedshiftSchemaRead(readRedshiftSchema(Client(db), d, db, F))} :
               /\ last' = Invocation("SchemaRead", d, r, db)
               /\ UNCHANGED <<db, st>>

(* The host stores what the hook left in d; a hook that failed leaves the
   stored state as it was. *)
SchemaPersist ==
    /\ ~Idle
    /\ st' = IF last.ret # Nil THEN st ELSE [id |-> SchemaResourceId, flags |-> last.flags]
    /\ last' = NoInvocation
    /\ UNCHANGED db

SchemaInit ==
    /\ db \in {SchemaCatalog(a) : a \in SchemaConfigs}
    /\ st = [id |-> SchemaResourceId, flags |-> SchemaAttrs(db)]
    /\ last = NoInvocation

SchemaNext ==
    \/ SchemaUpdate
    \/ SchemaRead
    \/ SchemaPersist

SchemaSpec == SchemaInit /\ [][SchemaNext]_vars

----------------------------------------------------------------------------
(* Reading an invocation.                                                   *)

IsExec(c) == c.call = "Exec"
Execs(calls) == SelectSeq(calls, IsExec)
Sqls(calls) == [i \in 1..Len(Execs(calls)) |-> Execs(calls)[i].sql]
Made(calls, kind) == \E i \in 1..Len(calls) : calls[i].call = kind
Reconcile == {"Create", "Update"}
Writers == {"Create", "Update", "Delete"}

(* The invocation met no failing connection: every call returned without an
   error (a query finding no row is no failure of the connection). *)
FaultFree == \A i \in 1..Len(last.calls) :
                last.calls[i].res \in {Nil, ErrNoRows, ErrScanNull, ErrTxDone}

IsValidationError(e) ==
    \/ e = ErrNoPrivilege
    \/ \E n \in SchemaNames : e = ErrSystemSchemaPrefix \o n

(* What a Read hook invoked on the catalog cat returns: its result and the
   PrivilegeSet it leaves in d. *)
ReadNow(cat) ==
    LET r == resourceRedshiftSchemaGroupPrivilegeRead(cat, [config |-> {}, state |-> {}], NoFault)
    IN [ret |-> r.s.ret, flags |-> r.flags]

(* The first failing Exec of an invocation, 0 when every Exec succeeded. *)
FirstFailedExec(calls) ==
    LET bad == {i \in 1..Len(calls) : calls[i].call = "Exec" /\ calls[i].res # Nil}
    IN IF bad = {} THEN 0 ELSE Min(bad)

----------------------------------------------------------------------------
(* C1: a Create or Update whose desired PrivilegeSet has no true flag       *)
(* returns 'Must have at least 1 privilege' and issues no Exec and no       *)
(* QueryRow.  The hooks call Begin before they validate and panic when it   *)
(* fails, so the result is not always the validation error.                 *)
C1_ZeroFlagsRejected ==
    (last.op \in Reconcile /\ last.config = {}) =>
        /\ last.ret = ErrNoPrivilege
        /\ ~Made(last.calls, "Exec")
        /\ ~Made(last.calls, "QueryRow")

(* C2: when Create or Update is rejected with the zero-privileges error, no *)
(* transaction was opened: no Begin before the check, no Rollback.          *)
C2_NoTransactionOpened ==
    (last.op \in Reconcile /\ last.ret = ErrNoPrivilege) =>
        /\ ~Made(last.calls, "Begin")
        /\ ~Made(last.calls, "Rollback")

C4_CreateReadRoundTrip ==
    (last.op = "Create" /\ last.ret = Nil) =>
        /\ ReadNow(db).ret = Nil
        /\ ReadNow(db).flags = last.config

(* C5: applying the desired PrivilegeSet again once the stored state equals *)
(* it finds no changed flag, executes no statement and leaves the ACLs of   *)
(* the warehouse as they were.                                              *)
C5_SecondApplyIsNoOp ==
    (last.op = "Update" /\ last.config # {} /\ last.prior = last.config) =>
        /\ ~Made(last.calls, "Exec")
        /\ db = last.pre

C5_Witness ==
    /\ last.op = "Update" /\ last.ret = Nil
    /\ last.prior = last.config /\ last.config = {"select", "usage"}
    /\ ReadNow(last.pre).flags = last.config

(* C6: a Create or Update against a schema owned by the system owner fails  *)
(* with a validation error and executes no statement.  Stated for the       *)
(* invocations in which every call on the connection succeeded, so that     *)
(* the schema and its owner were resolved.                                  *)
C6_SystemSchemaGuard ==
    (last.op \in Reconcile /\ last.pre.nspowner = SystemOwner
       /\ \A i \in 1..Len(last.calls) : last.calls[i].res = Nil) =>
        /\ IsValidationError(last.ret)
        /\ ~Made(last.calls, "Exec")

(* C7: when a statement of a Create, Update or Delete fails after earlier   *)
(* statements of it succeeded, the hook returns an error and a Read then    *)
(* observes what a Read observed before the operation.                      *)
C7_FailureLeavesWarehouse ==
    (last.op \in Writers /\ FirstFailedExec(last.calls) # 0
       /\ \E j \in 1..FirstFailedExec(last.calls) :
             last.calls[j].call = "Exec" /\ last.calls[j].res = Nil) =>
        /\ last.ret # Nil
        /\ ReadNow(db) = ReadNow(last.pre)
        /\ db = last.pre

(* the third statement of an Update that changes one table-level flag and
   both schema-level flags fails, the first two having succeeded *)
C7_Witness ==
    /\ last.op = "Update"
    /\ LET changed == (last.config \ last.prior) \cup (last.prior \ last.config)
       IN changed \cap TableFlags # {} /\ SchemaFlags \subseteq changed
    /\ Len(Execs(last.calls)) = 3
    /\ Execs(last.calls)[2].res = Nil /\ Execs(last.calls)[3].res = ErrExec
    /\ ReadNow(last.pre).ret = Nil

(* C8 as claimed: with select stored true and the desired set all false,    *)
(* Update executes REVOKE SELECT ON ALL TABLES and its ALTER DEFAULT        *)
(* PRIVILEGES mirror.                                                       *)
RevokeSelectSqls(cat) ==
    <<"REVOKE SELECT ON ALL TABLES IN SCHEMA " \o cat.nspname \o " FROM GROUP " \o cat.groname,
      "ALTER DEFAULT PRIVILEGES IN SCHEMA " \o cat.nspname
        \o " REVOKE SELECT ON TABLES FROM GROUP " \o cat.groname>>

IsReadBack(c) == c.call = "QueryRow" /\ c.sql \in {"hasPrivilegeQuery", "hasSchemaPrivilegeQuery"}

C9_ReadBackBeforeCommit ==
    (last.op \in Reconcile /\ Execs(last.calls) # <<>> /\ FirstFailedExec(last.calls) = 0) =>
        LET c == last.calls
            reads == {i \in 1..Len(c) : IsReadBack(c[i])}
            failed == {i \in reads : c[i].res \notin {Nil, ErrNoRows}}
        IN /\ reads # {}
           /\ \A k \in 1..Len(c) : c[k].call = "Commit" =>
                /\ failed = {}
                /\ \E i \in reads : i < k
           /\ failed # {} => /\ Made(c, "Rollback")
                             /\ \E i \in failed : last.ret = c[i].res

(* C10: on the first failing statement of a Create, Update or Delete a      *)
(* Rollback is attempted next, no statement is executed or retried after    *)
(* it, Commit is never called, and the hook returns the statement's error   *)
(* even when the Rollback fails.                                            *)
C10_FirstErrorRollsBack ==
    (last.op \in Writers /\ FirstFailedExec(last.calls) # 0) =>
        LET c == last.calls
            i == FirstFailedExec(c)
        IN /\ Len(c) > i /\ c[i + 1].call = "Rollback"
           /\ \A j \in (i + 1)..Len(c) : c[j].call \notin {"Exec", "Commit"}
           /\ ~Made(c, "Commit")
           /\ \A j \in 1..(i - 1) : c[j].call = "Exec" => c[j].sql # c[i].sql
           /\ last.ret = c[i].res
           /\ ~last.committed

C10_Witness ==
    /\ last.op \in Writers
    /\ FirstFailedExec(last.calls) # 0
    /\ last.calls[Len(last.calls)].call = "Rollback"
    /\ last.calls[Len(last.calls)].res = ErrRollback
    /\ last.ret = ErrExec

(* C11: after a successful Delete a Read returns nil and the all-false      *)
(* PrivilegeSet, and Exists returns false.  Delete revokes everything, so   *)
(* the default ACL no longer names the group, and that is the state in      *)
(* which hasPrivilegeQuery makes the Read fail (C12).                       *)
C11_DeleteRevokesAll ==
    (last.op = "Delete" /\ last.ret = Nil) =>
        /\ ReadNow(db).ret = Nil
        /\ ReadNow(db).flags = {}
        /\ ~resourceRedshiftSchemaGroupPrivilegeExists(db, NoFault).exists

(* C12: a Read whose queries meet no failure of the connection returns nil, *)
(* with the table-level flags false when the default ACL does not name the  *)
(* group and the schema-level flags false when the schema's ACL does not;   *)
(* a Read one of whose queries fails leaves the stored flags as they were.  *)
NamedIn(cat, acl) == acl # <<>> /\ GroupLike(cat, acl)

C12_NoRowReadsFalse ==
    last.op = "Read" =>
        /\ FaultFree =>
             /\ last.ret = Nil
             /\ ~NamedIn(last.pre, last.pre.defaclacl) => last.flags \cap TableFlags = {}
             /\ ~NamedIn(last.pre, last.pre.nspacl) => last.flags \cap SchemaFlags = {}
        /\ (\E i \in 1..Len(last.calls) : last.calls[i].res = ErrQuery) =>
             last.ret = ErrQuery /\ last.flags = last.prior

(* C13: a successful Update executes statements for exactly the flags whose *)
(* desired value differs from the stored one: ON ALL TABLES and ALTER       *)
(* DEFAULT PRIVILEGES for a changed table-level flag, one ON SCHEMA for a   *)
(* changed schema-level flag, GRANT when the desired value is true and      *)
(* REVOKE when it is false, each naming that flag alone.                    *)
Changed == (last.config \ last.prior) \cup (last.prior \ last.config)

C13_MinimalDiff ==
    (last.op = "Update" /\ last.ret = Nil) =>
        LET ex == Execs(last.calls)
            of(f) == {i \in 1..Len(ex) : f \in ex[i].stmt.privs}
        IN /\ \A i \in 1..Len(ex) : Cardinality(ex[i].stmt.privs) = 1
           /\ \A f \in Flags \ Changed : of(f) = {}
           /\ \A f \in Changed :
                /\ Cardinality(of(f)) = (IF f \in TableFlags THEN 2 ELSE 1)
                /\ {ex[i].stmt.on : i \in of(f)} =
                     (IF f \in TableFlags THEN {OnAllTables, OnDefault} ELSE {OnSchema})
                /\ \A i \in of(f) :
                     ex[i].stmt.verb = (IF f \in last.config THEN "GRANT" ELSE "REVOKE")

C13_Witness ==
    /\ last.op = "Update" /\ last.ret = Nil
    /\ last.prior = {"select", "usage"} /\ last.config = {"usage", "create"}
    /\ Len(Execs(last.calls)) = 3

(* C14: every statement of a Create, Update or Delete names the schema and  *)
(* the group as the catalog has them when the operation runs, resolved by   *)
(* the two lookups of this operation before its first Exec; when a lookup   *)
(* fails the operation returns that error, rolls back and executes nothing. *)
IsLookup(c) == c.call = "QueryRow" /\ ~IsReadBack(c)

C14_NamesResolvedInTx ==
    last.op \in Writers =>
        LET c == last.calls
            lookups == {i \in 1..Len(c) : IsLookup(c[i])}
        IN /\ \A i \in 1..Len(c) : IsExec(c[i]) =>
                /\ c[i].stmt.schema = last.pre.nspname
                /\ c[i].stmt.group = last.pre.groname
                /\ Cardinality({j \in lookups : j < i /\ c[j].res = Nil}) = 2
           /\ (last.op = "Delete" /\ last.ret = Nil) =>
                Sqls(c) = <<"REVOKE ALL ON  ALL TABLES IN SCHEMA " \o last.pre.nspname
                              \o " FROM GROUP " \o last.pre.groname,
                            "ALTER DEFAULT PRIVILEGES IN SCHEMA " \o last.pre.nspname
                              \o " REVOKE ALL ON TABLES FROM GROUP " \o last.pre.groname,
                            "REVOKE ALL ON SCHEMA " \o last.pre.nspname
                              \o " FROM GROUP " \o last.pre.groname>>
           /\ \A j \in lookups : c[j].res # Nil =>
                /\ last.ret = c[j].res
                /\ Made(c, "Rollback")
                /\ ~Made(c, "Exec")
                /\ ~last.committed

(* an Update after the schema and the group were renamed *)
C14_Witness ==
    /\ last.op = "Update" /\ last.ret = Nil
    /\ last.pre.nspname = "t" /\ last.pre.groname = "h"
    /\ Len(Execs(last.calls)) > 0
    /\ Execs(last.calls)[1].stmt.schema = "t" /\ Execs(last.calls)[1].stmt.group = "h"

(* C15: the statements of an operation run in a fixed order.  Create and    *)
(* Delete: ON ALL TABLES, then ALTER DEFAULT PRIVILEGES, then ON SCHEMA.    *)
(* Update: by flag in the order select, insert, update, delete, references, *)
(* usage, create, and for one flag ON ALL TABLES before ALTER DEFAULT       *)
(* PRIVILEGES.                                                              *)
ObjectRank(on) == CASE on = OnAllTables -> 1 [] on = OnDefault -> 2 [] on = OnSchema -> 3

FlagRank(f) ==
    CASE f = "select" -> 1 [] f = "insert" -> 2 [] f = "update" -> 3 [] f = "delete" -> 4
      [] f = "references" -> 5 [] f = "usage" -> 6 [] f = "create" -> 7

StmtRank(stmt) ==
    LET f == CHOOSE g \in stmt.privs : TRUE
    IN <<FlagRank(f), ObjectRank(stmt.on)>>

Before(a, b) == a[1] < b[1] \/ (a[1] = b[1] /\ a[2] < b[2])

C15_FixedOrder ==
    last.op \in Writers =>
        LET ex == Execs(last.calls)
        IN /\ last.op \in {"Create", "Delete"} =>
                \A i, j \in 1..Len(ex) : i < j => ObjectRank(ex[i].stmt.on) < ObjectRank(ex[j].stmt.on)
           /\ last.op = "Update" =>
                \A i, j \in 1..Len(ex) : i < j => Before(StmtRank(ex[i].stmt), StmtRank(ex[j].stmt))
           /\ (last.op = "Delete" /\ last.ret = Nil) =>
                [i \in 1..Len(ex) |-> ex[i].stmt.on] = <<OnAllTables, OnDefault, OnSchema>>

(* an Update that changes all three flags of the host: four statements *)
C15_Witness ==
    /\ last.op = "Update" /\ last.ret = Nil
    /\ last.prior = {"select"} /\ last.config = {"usage", "create"}
    /\ [i \in 1..Len(Execs(last.calls)) |-> Execs(last.calls)[i].stmt.privs]
         = <<{"select"}, {"select"}, {"usage"}, {"create"}>>

(* C16: every operation that began a transaction has called Commit or       *)
(* Rollback on it when it returns.                                          *)
Began(c) == Len(c) > 0 /\ c[1].call = "Begin" /\ c[1].res = Nil

C16_EveryTransactionFinished ==
    (last.op # "none" /\ Began(last.calls)) =>
        (Made(last.calls, "Commit") \/ Made(last.calls, "Rollback"))

(* C17: an operation calls Commit or Rollback at most once on its           *)
(* transaction, never on one that is already finished.                      *)
Finishers(c) == {i \in 1..Len(c) : c[i].call \in {"Commit", "Rollback"}}

C17_FinishedAtMostOnce ==
    last.op \in {"Create", "Read", "Update", "Delete"} =>
        /\ Cardinality(Finishers(last.calls)) <= 1
        /\ \A i \in Finishers(last.calls) : last.calls[i].res # ErrTxDone

(* C18: after a successful resourceRedshiftSchemaUpdate the attributes left *)
(* in d by its read-back are the ones the update committed.                 *)
C18_ReadBackSeesUpdate ==
    (last.op = "SchemaUpdate" /\ last.ret = Nil) => last.flags = SchemaAttrs(db)
=============================================================================
